---- MODULE Spec2Model ----
(***************************************************************************)
(* LLMBooster, llmbooster/parallel_inference.py: ParallelAIUtilities.      *)
(*                                                                         *)
(* A batch of prompts is split by provider; each provider partition is     *)
(* written to a requests file, handed to process_api_requests_from_file    *)
(* (module oai_parallel) and read back from the results file.              *)
(*                                                                         *)
(* oai_parallel is not among the source files: the engine actions below    *)
(* (Reserve, Send, Respond*, Tick) follow the specification's sections 4.1,*)
(* 4.2 and 6.  Everything else is translated from parallel_inference.py.   *)
(***************************************************************************)
EXTENDS Integers, Sequences, FiniteSets, TLC

\* ------------------------------------------------------------------ bounds
\* Longest batch one call is given.
MaxBatch == 2
\* Largest max_tokens of a prompt.
MaxTokens == 2
\* RequestLimits given to the constructor (the defaults are 50 and 100000).
OaiMaxRequests == 2
OaiMaxTokens == 3
AnthropicMaxRequests == 1
AnthropicMaxTokens == 2
\* Longest batch of each call when two calls run at the same time.
MaxBatchTwo == 1
\* Transient faults the environment may produce in the retry scenarios.
MaxFaults == 5

\* ---------------------------------------------------------------- constants
Calls == {1, 2}
Providers == {"openai", "anthropic"}
Clients == Providers \cup {"unknown"}

\* The rate window (60 seconds) in clock ticks.
Window == 2
\* The fixed base delay of the backoff, in clock ticks.
BaseDelay == 1

VARIABLES
    prompts,        \* prompts[c]: the list run_parallel_ai_completion call c is given
    openai_key,     \* self.openai_key is set
    anthropic_key,  \* self.anthropic_key is set
    pc,             \* pc[c]: where call c stands
    results,        \* results[c]: the list call c builds and returns
    cfg,            \* cfg[c]: the config of the engine run call c awaits
    tasks,          \* tasks[c][client]: the engine's per-request state machines
    request_files,  \* request_files[<<client, stamp>>]: lines of <client>_requests_<stamp>.jsonl
    result_files,   \* result_files[<<client, stamp>>]: lines of <client>_results_<stamp>.jsonl
    budget,         \* budget[provider]: reservations granted inside the trailing window
    stamp,          \* the clock second time.strftime reads
    stampUsed,      \* a file name was derived from the current second
    faults,         \* transient faults the environment may still produce
    sent            \* messages of every request that went over the network

vars == <<prompts, openai_key, anthropic_key, pc, results, cfg, tasks,
          request_files, result_files, budget, stamp, stampUsed, faults, sent>>

\* ------------------------------------------------------------------- data
\* LLMPromptContext: llm_config.client, llm_config.model, llm_config.max_tokens
\* and the message content.  Temperature is copied like max_tokens and left out.
ModelOf(client) ==
    IF client = "openai" THEN "gpt-4o" ELSE IF client = "anthropic" THEN "claude" ELSE "other"

\* The message content of the prompt at position i of call c: distinct prompts
\* carry distinct content.
MessageOf(c, i) == (c - 1) * 10 + i

PromptsOf(c, clients, toks) ==
    [i \in 1..Len(clients) |->
        [client |-> clients[i], model |-> ModelOf(clients[i]),
         max_tokens |-> toks[i], message |-> MessageOf(c, i)]]

SeqsOver(S, n) == UNION {[1..k -> S] : k \in 0..n}

\* The batches call c may be given: 1 to MaxBatch prompts (or none, with
\* minLen = 0) of the given clients with max_tokens from toks.
Batches(c, minLen, clients, toks) ==
    UNION {{PromptsOf(c, cl, tk) : tk \in [1..Len(cl) -> toks]} :
            cl \in {s \in SeqsOver(clients, MaxBatch) : Len(s) >= minLen}}

\* RequestLimits of the two providers, as passed to __init__.
oai_request_limits ==
    [max_requests_per_minute |-> OaiMaxRequests, max_tokens_per_minute |-> OaiMaxTokens]

anthropic_request_limits ==
    [max_requests_per_minute |-> AnthropicMaxRequests,
     max_tokens_per_minute |-> AnthropicMaxTokens]

Min(a, b) == IF a <= b THEN a ELSE b

\* -------------------------------------------------- parallel_inference.py
\* The two list comprehensions of run_parallel_ai_completion.
PartitionOf(ps, client) == SelectSeq(ps, LAMBDA p : p.client = client)

\* None, as _convert_prompt_to_request returns it.
NoRequest == [shape |-> "none", model |-> "", messages |-> 0, max_tokens |-> 0]

\* shape stands for the provider's key set and message layout (oai_messages, or
\* anthropic_messages with the separate system field).
ConvertPromptToRequest(prompt, client) ==
    IF client = "openai"
    THEN [shape |-> "openai", model |-> prompt.model, messages |-> prompt.message,
          max_tokens |-> prompt.max_tokens]
    ELSE IF client = "anthropic"
    THEN [shape |-> "anthropic", model |-> prompt.model, messages |-> prompt.message,
          max_tokens |-> prompt.max_tokens]
    ELSE NoRequest

\* The lines _prepare_requests_file writes (mode 'w': the file is replaced).
PrepareRequestsFile(ps, client) ==
    SelectSeq([i \in 1..Len(ps) |-> ConvertPromptToRequest(ps[i], client)],
              LAMBDA r : r # NoRequest)

NoConfig ==
    [present |-> FALSE, requests_filepath |-> <<"", 0>>, save_filepath |-> <<"", 0>>,
     request_url |-> "", max_requests_per_minute |-> 0, max_tokens_per_minute |-> 0,
     max_attempts |-> 0]

\* _create_config with the two providers' limits exchanged.
CreateConfigSwapped(prompt, requests_file, results_file) ==
    IF prompt.client = "openai" /\ openai_key
    THEN [present |-> TRUE, requests_filepath |-> requests_file,
          save_filepath |-> results_file,
          request_url |-> "https://api.openai.com/v1/chat/completions",
          max_requests_per_minute |-> anthropic_request_limits.max_requests_per_minute,
          max_tokens_per_minute |-> anthropic_request_limits.max_tokens_per_minute,
          max_attempts |-> 5]
    ELSE IF prompt.client = "anthropic" /\ anthropic_key
    THEN [present |-> TRUE, requests_filepath |-> requests_file,
          save_filepath |-> results_file,
          request_url |-> "https://api.anthropic.com/v1/messages",
          max_requests_per_minute |-> oai_request_limits.max_requests_per_minute,
          max_tokens_per_minute |-> oai_request_limits.max_tokens_per_minute,
          max_attempts |-> 5]
    ELSE NoConfig

\* _create_config with a different attempt cap.
CreateConfigAttempts(prompt, requests_file, results_file, cap) ==
    IF prompt.client = "openai" /\ openai_key
    THEN [present |-> TRUE, requests_filepath |-> requests_file,
          save_filepath |-> results_file,
          request_url |-> "https://api.openai.com/v1/chat/completions",
          max_requests_per_minute |-> oai_request_limits.max_requests_per_minute,
          max_tokens_per_minute |-> oai_request_limits.max_tokens_per_minute,
          max_attempts |-> cap]
    ELSE IF prompt.client = "anthropic" /\ anthropic_key
    THEN [present |-> TRUE, requests_filepath |-> requests_file,
          save_filepath |-> results_file,
          request_url |-> "https://api.anthropic.com/v1/messages",
          max_requests_per_minute |-> anthropic_request_limits.max_requests_per_minute,
          max_tokens_per_minute |-> anthropic_request_limits.max_tokens_per_minute,
          max_attempts |-> cap]
    ELSE NoConfig

\* _create_config with max_attempts=6.
CreateConfigSixAttempts(prompt, requests_file, results_file) ==
    CreateConfigAttempts(prompt, requests_file, results_file, 6)

\* _create_config with max_attempts=2.
CreateConfigTwoAttempts(prompt, requests_file, results_file) ==
    CreateConfigAttempts(prompt, requests_file, results_file, 2)

CreateConfig(prompt, requests_file, results_file) ==
    IF prompt.client = "openai" /\ openai_key
    THEN [present |-> TRUE, requests_filepath |-> requests_file,
          save_filepath |-> results_file,
          request_url |-> "https://api.openai.com/v1/chat/completions",
          max_requests_per_minute |-> oai_request_limits.max_requests_per_minute,
          max_tokens_per_minute |-> oai_request_limits.max_tokens_per_minute,
          max_attempts |-> 5]
    ELSE IF prompt.client = "anthropic" /\ anthropic_key
    THEN [present |-> TRUE, requests_filepath |-> requests_file,
          save_filepath |-> results_file,
          request_url |-> "https://api.anthropic.com/v1/messages",
          max_requests_per_minute |-> anthropic_request_limits.max_requests_per_minute,
          max_tokens_per_minute |-> anthropic_request_limits.max_tokens_per_minute,
          max_attempts |-> 5]
    ELSE NoConfig

\* Response payloads: error is "" for a completion; about is the message content
\* the payload answers; attempt is the attempt that produced it.
Payload(err, msg, k) == [error |-> err, about |-> msg, attempt |-> k]

\* LLMOutput(raw_result=..., completion_kwargs=...); {} is NoRequest.
LLMOutput(raw, kwargs) == [raw_result |-> raw, completion_kwargs |-> kwargs]

ConvertResultToLLMOutput(result, original_prompt) ==
    IF original_prompt.client = "openai"
    THEN LLMOutput(result.response, result.request)
    ELSE IF original_prompt.client = "anthropic"
    THEN LLMOutput(result.response, result.request)
    ELSE LLMOutput(Payload("Unexpected client type", 0, 0), result.request)

\* zip(f, original_prompts): line i goes with prompt i, up to the shorter of the two.
ParseResultsFile(lines, original_prompts) ==
    [i \in 1..Min(Len(lines), Len(original_prompts)) |->
        IF lines[i].valid
        THEN ConvertResultToLLMOutput(lines[i], original_prompts[i])
        ELSE LLMOutput(Payload("JSON decode error", 0, 0), NoRequest)]

\* ------------------------------------------ run_parallel_ai_completion
\* The position after a provider's block: openai first, then anthropic, then
\* the return.
AfterBlock(client) == IF client = "openai" THEN "anthropic" ELSE "done"

Awaiting(client) == IF client = "openai" THEN "await_openai" ELSE "await_anthropic"

\* A task of the engine: one request read from the requests file.
NewTask(req) ==
    [req |-> req, st |-> "pending", attempts |-> 0, grants |-> 0, errs |-> 0,
     timer |-> 0, delays |-> <<>>, last |-> Payload("", 0, 0)]

ReadTasks(lines) == [i \in 1..Len(lines) |-> NewTask(lines[i])]

\* The two blocks started together (as asyncio.gather would): the anthropic block
\* does not wait for the openai block.
BlockReachedGather(c, client) ==
    \/ pc[c] = client
    \/ client = "anthropic" /\ pc[c] = "await_openai"

\* The block "if <client>_prompts: results.extend(await self._run_<client>_completion(...))"
\* may be entered when the call stands in front of it.
BlockReached(c, client) == pc[c] = client

\* _run_openai_completion / _run_anthropic_completion up to the await: the file
\* names are derived from the clock second, the requests file is written, the
\* config is built from the first prompt; without a config the method returns [].
\* The clock is read twice, by the method and by _prepare_requests_file: the
\* openai method reads it first for the results file, the anthropic method
\* first for the requests file, and the second may change in between (rolled).
\* An empty partition skips the block.
RunCompletion(c, client) ==
    LET part == PartitionOf(prompts[c], client)
        written == PrepareRequestsFile(part, client)
    IN  /\ BlockReached(c, client)
        /\ IF part = <<>>
           THEN /\ pc' = [pc EXCEPT ![c] = AfterBlock(client)]
                /\ UNCHANGED <<cfg, tasks, request_files, stamp, stampUsed>>
           ELSE \E rolled \in BOOLEAN :
                LET later == IF rolled THEN stamp + 1 ELSE stamp
                    requests_file ==
                        IF client = "openai" THEN <<client, later>> ELSE <<client, stamp>>
                    results_file ==
                        IF client = "openai" THEN <<client, stamp>> ELSE <<client, later>>
                    config == CreateConfig(part[1], requests_file, results_file)
                IN  /\ request_files' = [request_files EXCEPT ![requests_file] = written]
                    /\ stamp' = later
                    /\ stampUsed' = TRUE
                    /\ IF config.present
                       THEN /\ cfg' = [cfg EXCEPT ![c] = config]
                            /\ tasks' = [tasks EXCEPT ![c][client] = ReadTasks(written)]
                            /\ pc' = [pc EXCEPT ![c] = Awaiting(client)]
                       ELSE /\ pc' = [pc EXCEPT ![c] = AfterBlock(client)]
                            /\ UNCHANGED <<cfg, tasks>>
        /\ UNCHANGED <<prompts, openai_key, anthropic_key, results, result_files,
                       budget, faults, sent>>

RunOpenaiCompletion(c) == RunCompletion(c, "openai")

RunAnthropicCompletion(c) == RunCompletion(c, "anthropic")

Terminal(t) == t.st \in {"succeeded", "failed"}

EngineDone(c, client) ==
    \A i \in 1..Len(tasks[c][client]) : Terminal(tasks[c][client][i])

\* The engine has returned: the results file is parsed against the partition
\* and the outcome appended to the call's results.
ParseCompletion(c, client) ==
    /\ pc[c] = Awaiting(client)
    /\ EngineDone(c, client)
    /\ results' = [results EXCEPT ![c] =
            @ \o ParseResultsFile(result_files[cfg[c].save_filepath],
                                  PartitionOf(prompts[c], client))]
    /\ pc' = [pc EXCEPT ![c] = AfterBlock(client)]
    /\ UNCHANGED <<prompts, openai_key, anthropic_key, cfg, tasks, request_files,
                   result_files, budget, stamp, stampUsed, faults, sent>>

\* --------------------------------------- process_api_requests_from_file
\* Tokens a request is estimated to consume.
EstimatedTokens(req) == req.max_tokens

RequestsUsed(provider) == Len(budget[provider])

RECURSIVE SumTokens(_)
SumTokens(log) == IF log = <<>> THEN 0 ELSE Head(log).tokens + SumTokens(Tail(log))

TokensUsed(provider) == SumTokens(budget[provider])

\* Delay before the retry that follows the k-th retryable error.
RECURSIVE Backoff(_)
Backoff(k) == IF k <= 1 THEN BaseDelay ELSE 2 * Backoff(k - 1)

Running(c, client, i) ==
    /\ pc[c] = Awaiting(client)
    /\ i \in 1..Len(tasks[c][client])

SetTask(c, client, i, t) == [tasks EXCEPT ![c][client][i] = t]

\* reserve: granted when the window has room for one more request and for the
\* request's estimated tokens; the counters are incremented on the grant.
Reserve(c, client, i) ==
    LET t == tasks[c][client][i]
        est == EstimatedTokens(t.req)
    IN  /\ Running(c, client, i)
        /\ \/ t.st = "pending"
           \/ t.st = "retry" /\ t.timer = 0
        /\ RequestsUsed(client) < cfg[c].max_requests_per_minute
        /\ TokensUsed(client) + est <= cfg[c].max_tokens_per_minute
        /\ budget' = [budget EXCEPT ![client] = Append(@, [age |-> 0, tokens |-> est])]
        /\ tasks' = SetTask(c, client, i, [t EXCEPT !.st = "admitted", !.grants = @ + 1])
        /\ UNCHANGED <<prompts, openai_key, anthropic_key, pc, results, cfg,
                       request_files, result_files, stamp, stampUsed, faults, sent>>

\* The admitted request goes over the network.
Send(c, client, i) ==
    LET t == tasks[c][client][i]
    IN  /\ Running(c, client, i)
        /\ t.st = "admitted"
        /\ tasks' = SetTask(c, client, i, [t EXCEPT !.st = "inflight", !.attempts = @ + 1])
        /\ sent' = sent \cup {t.req.messages}
        /\ UNCHANGED <<prompts, openai_key, anthropic_key, pc, results, cfg,
                       request_files, result_files, budget, stamp, stampUsed, faults>>

\* One line of the results file: [request_parameters, response_payload]; valid
\* tells whether the line decodes as JSON.
Line(req, resp, ok) == [request |-> req, response |-> resp, valid |-> ok]

AppendLine(c, line) ==
    [result_files EXCEPT ![cfg[c].save_filepath] = Append(@, line)]

\* The provider answers with a completion: the line is appended on completion.
RespondOk(c, client, i) ==
    LET t == tasks[c][client][i]
        resp == Payload("", t.req.messages, t.attempts)
    IN  /\ Running(c, client, i)
        /\ t.st = "inflight"
        /\ tasks' = SetTask(c, client, i, [t EXCEPT !.st = "succeeded", !.last = resp])
        /\ result_files' = AppendLine(c, Line(t.req, resp, TRUE))
        /\ UNCHANGED <<prompts, openai_key, anthropic_key, pc, results, cfg,
                       request_files, budget, stamp, stampUsed, faults, sent>>

\* The provider answers, and the line that reaches the results file does not
\* decode.
RespondGarbled(c, client, i) ==
    LET t == tasks[c][client][i]
        resp == Payload("", t.req.messages, t.attempts)
    IN  /\ Running(c, client, i)
        /\ t.st = "inflight"
        /\ faults > 0
        /\ faults' = faults - 1
        /\ tasks' = SetTask(c, client, i, [t EXCEPT !.st = "succeeded", !.last = resp])
        /\ result_files' = AppendLine(c, Line(t.req, resp, FALSE))
        /\ UNCHANGED <<prompts, openai_key, anthropic_key, pc, results, cfg,
                       request_files, budget, stamp, stampUsed, sent>>

\* A fatal rejection: recorded as failed without retry.
RespondFatal(c, client, i) ==
    LET t == tasks[c][client][i]
        resp == Payload("rejected", t.req.messages, t.attempts)
    IN  /\ Running(c, client, i)
        /\ t.st = "inflight"
        /\ tasks' = SetTask(c, client, i, [t EXCEPT !.st = "failed", !.last = resp])
        /\ result_files' = AppendLine(c, Line(t.req, resp, TRUE))
        /\ UNCHANGED <<prompts, openai_key, anthropic_key, pc, results, cfg,
                       request_files, budget, stamp, stampUsed, faults, sent>>

\* A retryable error (rate limit, timeout, 5xx): a retry is scheduled after the
\* backoff delay unless the attempt cap is reached; then the request is recorded
\* as failed with this last error.
RespondRetryable(c, client, i) ==
    LET t == tasks[c][client][i]
        resp == Payload("rate_limit", t.req.messages, t.attempts)
        again == t.attempts < cfg[c].max_attempts
    IN  /\ Running(c, client, i)
        /\ t.st = "inflight"
        /\ faults > 0
        /\ faults' = faults - 1
        /\ tasks' = SetTask(c, client, i,
                IF again
                THEN [t EXCEPT !.st = "retry", !.errs = @ + 1, !.last = resp,
                               !.timer = Backoff(t.errs + 1),
                               !.delays = Append(@, Backoff(t.errs + 1))]
                ELSE [t EXCEPT !.st = "failed", !.errs = @ + 1, !.last = resp])
        /\ result_files' =
                IF again THEN result_files ELSE AppendLine(c, Line(t.req, resp, TRUE))
        /\ UNCHANGED <<prompts, openai_key, anthropic_key, pc, results, cfg,
                       request_files, budget, stamp, stampUsed, sent>>

\* ------------------------------------------------------------------ time
Aged(log) ==
    SelectSeq([i \in 1..Len(log) |-> [log[i] EXCEPT !.age = @ + 1]],
              LAMBDA g : g.age < Window)

RolledStamp == IF stampUsed THEN stamp + 1 ELSE stamp

\* The clock second changes: later file names differ from earlier ones.  Seconds
\* no file name was derived from are not told apart.
NextSecond ==
    /\ stampUsed
    /\ stamp' = RolledStamp
    /\ stampUsed' = FALSE
    /\ UNCHANGED <<prompts, openai_key, anthropic_key, pc, results, cfg, tasks,
                   request_files, result_files, budget, faults, sent>>

\* One tick of the rate window passes: reservations age out of the window and
\* backoff timers run down.
Tick ==
    /\ \/ \E p \in Providers : budget[p] # <<>>
       \/ \E c \in Calls, p \in Providers : \E i \in 1..Len(tasks[c][p]) :
            tasks[c][p][i].timer > 0
    /\ budget' = [p \in Providers |-> Aged(budget[p])]
    /\ tasks' = [c \in Calls |-> [p \in Providers |->
            [i \in 1..Len(tasks[c][p]) |->
                [tasks[c][p][i] EXCEPT !.timer = IF @ > 0 THEN @ - 1 ELSE 0]]]]
    /\ stamp' = RolledStamp
    /\ stampUsed' = FALSE
    /\ UNCHANGED <<prompts, openai_key, anthropic_key, pc, results, cfg,
                   request_files, result_files, faults, sent>>

\* ------------------------------------------------------- specifications
\* A call reads the clock in at most two blocks, and the second changes at most
\* once inside a block and once after it.
Stamps == 0..(4 * Cardinality(Calls))

FileNames == Providers \X Stamps

InitCommon ==
    /\ results = [c \in Calls |-> <<>>]
    /\ cfg = [c \in Calls |-> NoConfig]
    /\ tasks = [c \in Calls |-> [p \in Providers |-> <<>>]]
    /\ request_files = [f \in FileNames |-> <<>>]
    /\ result_files = [f \in FileNames |-> <<>>]
    /\ budget = [p \in Providers |-> <<>>]
    /\ stamp = 0
    /\ stampUsed = FALSE
    /\ sent = {}

OneCall(b) ==
    /\ prompts = [c \in Calls |-> IF c = 1 THEN b ELSE <<>>]
    /\ pc = [c \in Calls |-> IF c = 1 THEN "openai" ELSE "none"]

\* One call of run_parallel_ai_completion with any batch, recognized providers
\* or not, and any credentials; the environment produces at most one transient
\* fault.
Init ==
    /\ InitCommon
    /\ \E b \in Batches(1, 0, Clients, {MaxTokens}) : OneCall(b)
    /\ openai_key \in BOOLEAN
    /\ anthropic_key \in BOOLEAN
    /\ faults = 1

\* One call with both credentials set and a batch for one provider, with
\* requests of different sizes: the requests compete for that provider's budget.
InitAdmission ==
    /\ InitCommon
    /\ \E p \in Providers : \E b \in Batches(1, 1, {p}, 1..MaxTokens) : OneCall(b)
    /\ openai_key = TRUE
    /\ anthropic_key = TRUE
    /\ faults = 1

\* One call with both credentials set and recognized providers; the environment
\* may fail every attempt of a request.
InitRetry ==
    /\ InitCommon
    /\ \E b \in Batches(1, 1, Providers, {MaxTokens}) : OneCall(b)
    /\ openai_key = TRUE
    /\ anthropic_key = TRUE
    /\ faults = MaxFaults

\* Two calls in progress at the same time, both credentials set.
InitTwoCalls ==
    /\ InitCommon
    /\ \E b1 \in {x \in Batches(1, 1, Providers, 1..MaxTokens) : Len(x) <= MaxBatchTwo},
          b2 \in {x \in Batches(2, 1, Providers, 1..MaxTokens) : Len(x) <= MaxBatchTwo} :
            prompts = [c \in Calls |-> IF c = 1 THEN b1 ELSE b2]
    /\ pc = [c \in Calls |-> "openai"]
    /\ openai_key = TRUE
    /\ anthropic_key = TRUE
    /\ faults = 1

Next ==
    \/ \E c \in Calls : RunOpenaiCompletion(c)
    \/ \E c \in Calls : RunAnthropicCompletion(c)
    \/ \E c \in Calls, p \in Providers : ParseCompletion(c, p)
    \/ \E c \in Calls, p \in Providers : \E i \in 1..Len(tasks[c][p]) : Reserve(c, p, i)
    \/ \E c \in Calls, p \in Providers : \E i \in 1..Len(tasks[c][p]) : Send(c, p, i)
    \/ \E c \in Calls, p \in Providers : \E i \in 1..Len(tasks[c][p]) : RespondOk(c, p, i)
    \/ \E c \in Calls, p \in Providers : \E i \in 1..Len(tasks[c][p]) : RespondGarbled(c, p, i)
    \/ \E c \in Calls, p \in Providers : \E i \in 1..Len(tasks[c][p]) : RespondFatal(c, p, i)
    \/ \E c \in Calls, p \in Providers : \E i \in 1..Len(tasks[c][p]) : RespondRetryable(c, p, i)
    \/ NextSecond
    \/ Tick

Spec == Init /\ [][Next]_vars

SpecAdmission == InitAdmission /\ [][Next]_vars

SpecRetry == InitRetry /\ [][Next]_vars

SpecTwoCalls == InitTwoCalls /\ [][Next]_vars

\* ================================================================ claims
TaskIds ==
    UNION {{<<c, p, i>> : i \in 1..Len(tasks[c][p])} : c \in Calls, p \in Providers}

TaskAt(x) == tasks[x[1]][x[2]][x[3]]

KeyOf(client) == IF client = "openai" THEN openai_key ELSE anthropic_key

LimitsOf(client) ==
    IF client = "openai" THEN oai_request_limits ELSE anthropic_request_limits

\* The output answers the prompt: it carries the prompt's request parameters, or
\* a payload about the prompt's content.
Belongs(out, prompt) ==
    \/ out.completion_kwargs.messages = prompt.message
    \/ out.raw_result.about = prompt.message

LineWritten(line) ==
    \E f \in FileNames : \E k \in 1..Len(result_files[f]) : result_files[f][k] = line

\* C1: a call that has returned, with the credential of every provider of the
\* batch set, holds exactly one result per input prompt, and the result at
\* position i belongs to the prompt at position i.
C1_LengthAndOrder ==
    \A c \in Calls :
        (/\ pc[c] = "done"
         /\ \A p \in Providers : PartitionOf(prompts[c], p) # <<>> => KeyOf(p)) =>
            /\ Len(results[c]) = Len(prompts[c])
            /\ \A i \in 1..Len(prompts[c]) : Belongs(results[c][i], prompts[c][i])

\* C2: a prompt of an unrecognized provider is in no requests file and never
\* goes over the network, and the returned list holds a failed result for it at
\* its input position.
C2_UnknownProviderFails ==
    \A c \in Calls : \A i \in 1..Len(prompts[c]) :
        prompts[c][i].client \notin Providers =>
            /\ prompts[c][i].message \notin sent
            /\ \A f \in FileNames : \A k \in 1..Len(request_files[f]) :
                    request_files[f][k].messages # prompts[c][i].message
            /\ pc[c] = "done" =>
                    /\ i <= Len(results[c])
                    /\ results[c][i].raw_result.error # ""
                    /\ Belongs(results[c][i], prompts[c][i])

\* C3: inside the trailing window no provider has more granted reservations than
\* its max_requests_per_minute nor more estimated tokens than its
\* max_tokens_per_minute, and a request is on the network only with a
\* reservation counted for that attempt.
C3_BudgetNeverExceeded ==
    /\ \A p \in Providers :
        /\ RequestsUsed(p) <= LimitsOf(p).max_requests_per_minute
        /\ TokensUsed(p) <= LimitsOf(p).max_tokens_per_minute
    /\ \A x \in TaskIds :
        /\ TaskAt(x).attempts <= TaskAt(x).grants
        /\ TaskAt(x).st = "inflight" => TaskAt(x).attempts = TaskAt(x).grants

\* C3 witness: a provider's request budget is fully spent inside the window
\* while another request of that provider waits for a reservation.
C3_Witness ==
    \E x \in TaskIds :
        /\ TaskAt(x).st \in {"pending", "retry"}
        /\ pc[x[1]] = Awaiting(x[2])
        /\ RequestsUsed(x[2]) = LimitsOf(x[2]).max_requests_per_minute

\* C4: no request is attempted more than 5 times; a request whose every attempt
\* failed with a retryable error ends failed after exactly 5 attempts, its line
\* of the results file carries the error of the fifth attempt, and the call
\* returns that failure in its result list.
C4_AttemptCap ==
    \A x \in TaskIds :
        LET t == TaskAt(x) IN
        /\ t.attempts <= 5
        /\ (Terminal(t) /\ t.errs = t.attempts) =>
            /\ t.st = "failed"
            /\ t.attempts = 5
            /\ t.last = Payload("rate_limit", t.req.messages, 5)
            /\ pc[x[1]] = "done" =>
                \E k \in 1..Len(results[x[1]]) :
                    results[x[1]][k] = LLMOutput(t.last, t.req)

\* C4 witness: a call has returned with a request that failed five times.
C4_Witness ==
    \E x \in TaskIds :
        /\ TaskAt(x).st = "failed"
        /\ TaskAt(x).errs = 5
        /\ pc[x[1]] = "done"

\* C5: when the engine has returned and every line of the results file decodes,
\* the output the parse pairs with the i-th request of the partition carries the
\* parameters and the response of that request.
C5_RoundTrip ==
    \A c \in Calls : \A p \in Providers :
        LET part == PartitionOf(prompts[c], p)
            lines == result_files[cfg[c].save_filepath]
            parsed == ParseResultsFile(lines, part)
        IN  (/\ pc[c] = Awaiting(p)
             /\ EngineDone(c, p)
             /\ \A k \in 1..Len(lines) : lines[k].valid) =>
                \A i \in 1..Len(part) :
                    /\ i <= Len(parsed)
                    /\ parsed[i].completion_kwargs = ConvertPromptToRequest(part[i], p)
                    /\ parsed[i].raw_result.about = part[i].message

\* C6: a call does not return normally when the credential of a provider that
\* has prompts in the batch is missing.
C6_MissingCredentialSurfaces ==
    \A c \in Calls : pc[c] = "done" =>
        \A p \in Providers : PartitionOf(prompts[c], p) # <<>> => KeyOf(p)

\* C7: with one provider, its credential set and the lines of the results file
\* in submission order, every position of the returned list holds the final
\* result of its own request; for a line that does not decode the result
\* carries the raw line.
C7_FailuresStayAtTheirIndex ==
    \A c \in Calls : \A p \in Providers :
        LET part == PartitionOf(prompts[c], p)
            lines == result_files[cfg[c].save_filepath]
        IN  (/\ pc[c] = "done"
             /\ part = prompts[c]
             /\ part # <<>>
             /\ KeyOf(p)
             /\ \A k \in 1..Len(lines) : k <= Len(part) /\
                    lines[k].request = ConvertPromptToRequest(part[k], p)) =>
                /\ Len(results[c]) = Len(prompts[c])
                /\ \A i \in 1..Len(prompts[c]) :
                        results[c][i].raw_result = tasks[c][p][i].last

\* C8: a request that got two rate-limit errors is not given up; when it then
\* succeeds it has been attempted exactly three times, each attempt under its own
\* reservation, the second retry waited twice as long as the first, and the call
\* returns its completion.
C8_ThirdAttemptSucceeds ==
    \A x \in TaskIds :
        LET t == TaskAt(x) IN
        t.errs = 2 =>
            /\ t.st # "failed" \/ t.last.error = "rejected"
            /\ t.st = "succeeded" =>
                /\ t.attempts = 3
                /\ t.grants = 3
                /\ Len(t.delays) = 2
                /\ t.delays[2] = 2 * t.delays[1]
                /\ t.delays[2] > t.delays[1]
                /\ t.last = Payload("", t.req.messages, 3)
                /\ (pc[x[1]] = "done" /\ LineWritten(Line(t.req, t.last, TRUE))) =>
                        \E k \in 1..Len(results[x[1]]) :
                            results[x[1]][k] = LLMOutput(t.last, t.req)

\* C8 witness: a call has returned the completion of a request that succeeded on
\* its third attempt after two rate-limit errors.
C8_Witness ==
    \E x \in TaskIds :
        /\ TaskAt(x).errs = 2
        /\ TaskAt(x).st = "succeeded"
        /\ TaskAt(x).attempts = 3
        /\ pc[x[1]] = "done"
        /\ \E k \in 1..Len(results[x[1]]) :
                results[x[1]][k] = LLMOutput(TaskAt(x).last, TaskAt(x).req)

\* C9 as stated: while the openai partition of a call is in progress, a
\* non-empty anthropic partition can be started.
C9_PartitionsConcurrent ==
    \A c \in Calls :
        (pc[c] = "await_openai" /\ PartitionOf(prompts[c], "anthropic") # <<>>) =>
            ENABLED RunAnthropicCompletion(c)

\* C9 amended: the partitions run one after the other; the anthropic partition
\* has tasks only once every openai request has its final outcome and the openai
\* results are parsed.
C9_PartitionsSequential ==
    \A c \in Calls : tasks[c]["anthropic"] # <<>> =>
        /\ pc[c] \in {"await_anthropic", "done"}
        /\ EngineDone(c, "openai")

\* C9 witness: an anthropic request of a call is on the network and the call
\* also had an openai partition.
C9_Witness ==
    \E c \in Calls :
        /\ tasks[c]["openai"] # <<>>
        /\ tasks[c]["anthropic"] # <<>>
        /\ tasks[c]["anthropic"][1].st = "inflight"

\* C10: a call returns only results of its own requests.
C10_BatchesIsolated ==
    \A c \in Calls : pc[c] = "done" =>
        \A k \in 1..Len(results[c]) :
            \/ results[c][k].completion_kwargs = NoRequest
            \/ \E i \in 1..Len(prompts[c]) :
                    results[c][k].completion_kwargs.messages = prompts[c][i].message

====
